---- MODULE Spec2Model ----
(***************************************************************************)
(* The serial-monitor WebSocket bridge of backend/server.py                *)
(* (serial_websocket, read_stdout, ConnectionManager).                     *)
(*                                                                         *)
(* One session is modelled: the handler coroutine ("main"), the stdout     *)
(* read task ("reader"), the monitor subprocess and the client.  The two   *)
(* coroutines share one asyncio event loop: `turn` names the coroutine     *)
(* that holds the loop, and it changes hands only at an await.  A blocking *)
(* call (readline, stderr.read, wait) keeps the loop until it returns.     *)
(* The subprocess and the client are outside the loop and move at any      *)
(* time.                                                                   *)
(***************************************************************************)
EXTENDS Integers, Sequences, FiniteSets, TLC

\* ---------------------------------------------------------------- bounds
MaxLines == 1      \* lines the monitor process writes to stdout
MaxIn == 2         \* frames the client sends on the socket
MaxSessions == 2   \* serial sessions open on the server at the same time

\* ---------------------------------------------------------------- inputs
WS == 1                      \* the websocket of the session
Port == "COM7"               \* path parameter {port}
NoParam == "<absent>"        \* query string without baudrate
BaudParams == {NoParam, "115200", "abc"}
CliPath == "../bin/arduino-cli"
Whitespace == {" ", "\t", "\n", "\r"}
\* bytes on stdout that the text-mode pipe cannot decode
BadLine == <<"<undecodable>", "\n">>
\* stdout lines of the monitor process, as readline() returns them
ProcLines == { <<"a", "\n">>, <<" ", "b", " ", "\n">>, BadLine }
\* the text of the client's n-th frame when that frame is a text frame
InText(n) == IF n % 2 = 1 THEN <<"x", ToString(n)>> ELSE <<" ", "y", ToString(n), "\n">>
\* what the process leaves on stderr when it exits
ErrOutputs == { <<>>, <<"e">> }
TextFrame(t) == [kind |-> "text", text |-> t]
BytesFrame == [kind |-> "bytes", text |-> <<>>]
\* what the client may send as its n-th frame
InFrames(n) == {TextFrame(InText(n)), BytesFrame}

VARIABLES
  active_connections, \* ConnectionManager.active_connections
  pc,                 \* position of serial_websocket
  turn,               \* coroutine holding the event loop
  cliExists,          \* cli_path.exists()
  baudParam,          \* websocket.query_params.get('baudrate')
  baudrate,           \* local baudrate
  process,            \* "None" | "running" (poll() is None) | "exited"
  spawned,            \* number of Popen calls that returned a process
  terminated,         \* process.terminate() was called
  killed,             \* process.kill() was called
  stdout_pipe,        \* lines written by the process, not yet read
  written,            \* every line the process wrote (history)
  error_output,       \* contents of the process's stderr at exit
  stdin_log,          \* what was written to process.stdin (history)
  read_task,          \* position of read_stdout
  line,               \* local line of read_stdout
  frames,             \* frames delivered to the socket (history)
  sockOpen,           \* client side of the websocket is open
  inbox,              \* frames sent by the client, not yet received
  sent,               \* number of frames the client has sent
  received,           \* texts returned by receive_text (history)
  data,               \* local data of the main loop
  exc,                \* exception in flight ("" when none)
  endedBy,            \* which trigger made the session leave its body
  teardowns,          \* executions of the finally block's release
  sessions,           \* several sessions: state of each serial_websocket call
  blocked,            \* several sessions: coroutines inside a blocking call
  cli,                \* state of a run_arduino_cli call
  store,              \* workspace file store: disk, last writes, last response
  parts,              \* part catalog: descriptor files, listing, last graphic
  api,                \* toolchain endpoints: the request and its response
  sketch              \* compile/upload: temporary directories and requests

vars == << active_connections, pc, turn, cliExists, baudParam, baudrate,
           process, spawned, terminated, killed, stdout_pipe, written,
           error_output, stdin_log, read_task, line, frames, sockOpen,
           inbox, sent, received, data, exc, endedBy,
           teardowns, sessions, blocked, cli, store, parts, api, sketch >>

procVars == << process, spawned, terminated, killed, stdout_pipe, written,
               error_output, stdin_log >>
clientVars == << sockOpen, inbox, sent >>
inputVars == << cliExists, baudParam >>
\* the variables of the several-session model and of run_arduino_cli
\* the variables of the HTTP endpoints
httpVars == << store, parts, api, sketch >>
extVars == << sessions, blocked, cli, httpVars >>
\* the variables of the one-session model, the registry apart
oneVars == << pc, turn, cliExists, baudParam, baudrate, procVars, read_task,
             line, frames, clientVars, received, data, exc, endedBy,
             teardowns >>

\* ------------------------------------------------------- pure functions
\* str.strip(): leading and trailing whitespace removed
RECURSIVE rstrip(_)
rstrip(s) ==
  IF s = <<>> THEN s
  ELSE IF s[Len(s)] \in Whitespace THEN rstrip(SubSeq(s, 1, Len(s) - 1))
  ELSE s

RECURSIVE lstrip(_)
lstrip(s) ==
  IF s = <<>> THEN s
  ELSE IF Head(s) \in Whitespace THEN lstrip(Tail(s))
  ELSE s

strip(s) == lstrip(rstrip(s))

\* the f-strings of the diagnostic frames
NotFoundMsg == <<"Error: Arduino CLI executable not found at ", CliPath>>
ConnectingMsg(p, b) == <<"Connecting to ", p, " at ", b, " baud...">>
SpawnFailMsg(e) == <<"Error: Failed to start arduino-cli monitor: ", e>>
FailedConnectMsg(p, err) == <<"Error: Failed to connect to port ", p, ": ">> \o err
ConnectedMsg(p, b) == <<"Connected to ", p, " at ", b, " baud">>
PortMonitorErrMsg(err) == <<"Error: Port monitor error: ">> \o err
ClosedMsg == <<"Serial connection closed">>
SendErrMsg(e) == <<"Error sending: ", e>>
ConnClosedMsg == <<"Error: Serial connection is closed">>
ErrMsg(e) == <<"Error: ", e>>

BridgeFrame(m) == [src |-> "bridge", raw |-> m, text |-> m]
ProcFrame(l) == [src |-> "proc", raw |-> l, text |-> strip(l)]

\* query_params.get('baudrate', '9600')
GetBaudrate(q) == IF q = NoParam THEN "9600" ELSE q

\* ------------------------------------------- several sessions: inputs
\* the websockets of the sessions the server may hold at the same time
Sockets == 1..MaxSessions
\* a serial_websocket call that has not begun
IdleSession == [pc |-> "idle", process |-> "None", read_task |-> "None",
                sockOpen |-> TRUE, pipe |-> "empty"]

\* ------------------------------------------- run_arduino_cli: inputs
\* possible_bin_paths, in the order they are tried
BinDirs == <<"../bin", "../../bin", "./bin", "/app/bin">>
\* the files that may exist on the disk, as <<directory, name>>
DiskFiles == { <<"../bin", "arduino-cli">>, <<"./bin", "arduino-cli">>,
               <<"./bin", "arduino-cli.exe">>, <<"/app/bin", "arduino-cli">>,
               <<"../bin", "avrdude">> }
Commands == { <<>>, <<"arduino-cli", "version">>,
              <<"arduino-cli.exe", "board", "list">>, <<"avrdude">> }
\* a byte sequence that is not valid UTF-8
BadByte == "<0xff>"
\* what subprocess.run does: the process exits with a code and its output
\* in bytes, or the call raises
RunOutcomes ==
  { [kind |-> "exit", returncode |-> 0, stdout |-> <<"o", BadByte>>, stderr |-> <<>>, error |-> ""],
    [kind |-> "exit", returncode |-> 1, stdout |-> <<>>, stderr |-> <<"e">>, error |-> ""],
    [kind |-> "exit", returncode |-> -1, stdout |-> <<"o">>, stderr |-> <<>>, error |-> ""],
    [kind |-> "raise", returncode |-> 0, stdout |-> <<>>, stderr |-> <<>>, error |-> "PermissionError"] }
NoResult == [success |-> FALSE, stdout |-> <<>>, stderr |-> <<>>, returncode |-> 0]
NoOutcome == [kind |-> "", returncode |-> 0, stdout |-> <<>>, stderr |-> <<>>, error |-> ""]
\* no call of run_arduino_cli is in progress
CliIdle == [pc |-> "idle", command |-> <<>>, files |-> {}, nt |-> FALSE,
            outcome |-> NoOutcome, bin_path |-> "", ran |-> FALSE,
            missing |-> FALSE, exc |-> "", result |-> NoResult]

\* ------------------------------------------- workspace file store: inputs
\* Strings are sequences of pieces; a piece is a run of characters that no
\* operation of the store splits.
WsPrefix == "/tmp/arduino_workspace/"
\* the paths a request may name
VPaths == { <<WsPrefix, "a", ".ino">>, <<WsPrefix, "a", WsPrefix, ".ino">>,
            <<WsPrefix, "d">>, <<"b", ".txt">> }
\* the contents a request may write
Contents == { <<"X">>, <<"X", "\r", "\n", "Y">> }
\* what a real path holds: nothing, a directory, or a file with its bytes
Absent == [kind |-> "absent", bytes |-> <<>>]
Directory == [kind |-> "dir", bytes |-> <<>>]
RegularFile(b) == [kind |-> "file", bytes |-> b]
NoContent == <<"<none>">>
NoResponse == [op |-> "", path |-> <<>>, real |-> <<>>, success |-> FALSE,
               content |-> NoContent, error |-> ""]
\* the real paths of the model: two files that may come and go, one directory
WsDir == "<workspace_dir>/"
RealPaths == { <<WsDir, "a", ".ino">>, <<WsDir, "d">>, <<"b", ".txt">> }
\* the store before the first request
FilesIdle == [disk |-> [r \in RealPaths |-> IF r = <<WsDir, "d">> THEN Directory ELSE Absent],
              expect |-> [p \in VPaths |-> NoContent],
              resp |-> NoResponse]

\* ------------------------------------------- part catalog: inputs
MaxParts == 2      \* descriptor files in the fritzing-parts directory
\* str(fzp_file) begins with the directory that is scanned
PartsDir == "<ROOT_DIR>/fritzing-parts/"
\* descriptor files: the path below the directory in pieces, whether the
\* handler's try block gets through the file, its title and family, and the
\* asset file of each view type
PartFiles ==
  { [path |-> <<"core", "/", "resistor", ".fzp">>, parses |-> TRUE,
     title |-> <<"Resistor">>, family |-> "",
     breadboard |-> "svg", icon |-> "absent"],
    [path |-> <<"user", "/", "sensor", "s", "/", "widget", ".fzp">>, parses |-> TRUE,
     title |-> <<"R", "&", "D">>, family |-> "gadget",
     breadboard |-> "malformed", icon |-> "absent"],
    [path |-> <<"contrib", "/", "RGB ", "LED", ".fzp">>, parses |-> TRUE,
     title |-> <<"RGB LED">>, family |-> "",
     breadboard |-> "svg", icon |-> "svg"],
    [path |-> <<"core", "/", "broken", ".fzp">>, parses |-> FALSE,
     title |-> <<>>, family |-> "",
     breadboard |-> "absent", icon |-> "absent"] }
\* the directory as glob yields it: up to MaxParts different files
RECURSIVE ScanOrders(_)
ScanOrders(n) ==
  IF n = 0 THEN {<<>>}
  ELSE LET shorter == ScanOrders(n - 1) IN
       shorter \cup { Append(d, f) : d \in {x \in shorter : Len(x) = n - 1},
                                     f \in PartFiles }
Directories ==
  { d \in ScanOrders(MaxParts) : \A i, j \in 1..Len(d) : i # j => d[i] # d[j] }
SvgTypes == {"breadboard", "icon"}
NoGraphic == [op |-> "", id |-> 0, svg_type |-> "", file |-> <<>>, kind |-> "",
              width |-> "", height |-> "", viewBox |-> "", label |-> <<>>,
              wellformed |-> FALSE]
PartsIdle == [pc |-> "idle", dir |-> <<>>, components |-> <<>>, graphic |-> NoGraphic]

\* ------------------------------------------- toolchain endpoints: inputs
\* the listing endpoints: the key of the answer, the key read from the
\* parsed output with .get (none for /ports) and the parse-failure text
Listings ==
  { [endpoint |-> "/boards", key |-> "boards", field |-> <<"boards">>,
     error |-> "Failed to parse board list"],
    [endpoint |-> "/boards/available", key |-> "boards", field |-> <<"boards">>,
     error |-> "Failed to parse available boards"],
    [endpoint |-> "/libraries/search", key |-> "libraries", field |-> <<"libraries">>,
     error |-> "Failed to parse library search results"],
    [endpoint |-> "/cores", key |-> "cores", field |-> <<"platforms">>,
     error |-> "Failed to parse cores"],
    [endpoint |-> "/cores/search", key |-> "platforms", field |-> <<"platforms">>,
     error |-> "Failed to parse available cores"],
    [endpoint |-> "/ports", key |-> "ports", field |-> <<>>,
     error |-> "Failed to parse port list"],
    [endpoint |-> "/libraries", key |-> "libraries", field |-> <<"installed_libraries">>,
     error |-> "Failed to parse library list"] }
\* what run_arduino_cli returns: a JSON object, a JSON array, text that
\* is not JSON, or a failed run
ToolResults ==
  { [success |-> TRUE, stdout |-> <<"{}">>, stderr |-> <<>>, returncode |-> 0],
    [success |-> TRUE, stdout |-> <<"[]">>, stderr |-> <<>>, returncode |-> 0],
    [success |-> TRUE, stdout |-> <<"Sketch uses 444 bytes">>, stderr |-> <<"warning">>,
     returncode |-> 0],
    [success |-> FALSE, stdout |-> <<"Compiling">>, stderr |-> <<"exit status 1">>,
     returncode |-> 1] }
NoAnswer == [raised |-> "", success |-> FALSE, error |-> <<>>]
ApiIdle == [endpoint |-> "", result |-> NoResult, resp |-> NoAnswer]

\* ------------------------------------------- compile and upload: inputs
MaxRequests == 2   \* compile and upload requests of one run
\* request.code: plain text, and text with a character that the locale's
\* code page cannot encode
Codes == { <<"void setup(){}">>, <<"// ", "U+4F60">> }
\* the encoding that Path.write_text() uses without an argument: the
\* locale's, which is the platform's choice
Encodings == {"utf-8", "cp1252"}
SketchIdle == [encoding |-> "", left |-> {}, log |-> <<>>]

\* --------------------------------------------------------- the event loop
ReaderRunnable == read_task \in {"poll", "readline", "send"}
MainRunnable == pc # "done"

\* who may hold the loop after an await of the main coroutine
MainYield == {"main"} \cup (IF ReaderRunnable THEN {"reader"} ELSE {})
\* who may hold the loop after an await of the read task
ReaderYield == {"reader"} \cup (IF MainRunnable THEN {"main"} ELSE {})

\* websocket.send_text: delivered when the client is there; on a closed
\* socket the ASGI layer drops the frame or raises, depending on its version
SendResults == IF sockOpen THEN {"ok"} ELSE {"drop", "WebSocketDisconnect", "RuntimeError"}

Init ==
  /\ active_connections = <<>>
  /\ pc = "accept"
  /\ turn = "main"
  /\ cliExists \in BOOLEAN
  /\ baudParam \in BaudParams
  /\ baudrate = ""
  /\ process = "None"
  /\ spawned = 0
  /\ terminated = FALSE
  /\ killed = FALSE
  /\ stdout_pipe = <<>>
  /\ written = <<>>
  /\ error_output = <<>>
  /\ stdin_log = <<>>
  /\ read_task = "None"
  /\ line = <<>>
  /\ frames = <<>>
  /\ sockOpen = TRUE
  /\ inbox = <<>>
  /\ sent = 0
  /\ received = <<>>
  /\ data = <<>>
  /\ exc = ""
  /\ endedBy = ""
  /\ teardowns = 0
  /\ sessions = [s \in Sockets |-> IdleSession]
  /\ blocked = {}
  /\ cli = CliIdle
  /\ store = FilesIdle
  /\ parts = PartsIdle
  /\ api = ApiIdle
  /\ sketch = SketchIdle

\* the trigger that ends a session is the first one that occurs
Trigger(old, new) == IF old = "" THEN new ELSE old

\* manager.send_personal_message at a place of the main coroutine: `next`
\* is where control goes when the call returns, `handler` where an
\* exception raised by it is caught ("finally" when nothing catches it),
\* `why` the trigger when the frame reports the end of the session
MainSend(msg, next, handler, why) ==
  \E r \in SendResults :
    /\ frames' = IF r = "ok" THEN Append(frames, BridgeFrame(msg)) ELSE frames
    /\ IF r \in {"ok", "drop"}
         THEN /\ pc' = next
              /\ exc' = ""
              /\ endedBy' = IF why = "" THEN endedBy ELSE Trigger(endedBy, why)
              /\ turn' \in MainYield
         ELSE /\ pc' = handler
              /\ exc' = r
              /\ endedBy' = IF why # "" THEN Trigger(endedBy, why)
                            ELSE IF handler = "finally" THEN Trigger(endedBy, "exception")
                            ELSE endedBy
              /\ turn' \in MainYield

\* ------------------------------------------------- serial_websocket (main)
mainFrame == << cliExists, baudParam, procVars, read_task, line, sockOpen,
                inbox, sent, received, data, active_connections, teardowns >>

\* line 563: manager.connect -- accept, then append to the registry
Connect ==
  /\ pc = "accept" /\ turn = "main"
  /\ active_connections' = Append(active_connections, WS)
  /\ pc' = "start"
  /\ UNCHANGED << turn, cliExists, baudParam, baudrate, procVars, read_task,
                  line, frames, sockOpen, inbox, sent, received, data, exc,
                  endedBy, teardowns >>
  /\ UNCHANGED extVars

\* CliNotFound without its return: the frame is sent and the session goes on
CliNotFound_NoReturn ==
  /\ pc = "start" /\ turn = "main"
  /\ ~cliExists
  /\ MainSend(NotFoundMsg, "spawn", "outer_except", "")
  /\ UNCHANGED << mainFrame, baudrate >>
  /\ UNCHANGED extVars

\* lines 576-580: the executable is missing -- one frame, return
CliNotFound ==
  /\ pc = "start" /\ turn = "main"
  /\ ~cliExists
  /\ MainSend(NotFoundMsg, "finally", "outer_except", "cli_missing")
  /\ UNCHANGED << mainFrame, baudrate >>
  /\ UNCHANGED extVars

\* lines 582-588: read the baud rate, announce the connection attempt
SendConnecting ==
  /\ pc = "start" /\ turn = "main"
  /\ cliExists
  /\ baudrate' = GetBaudrate(baudParam)
  /\ MainSend(ConnectingMsg(Port, baudrate'), "spawn", "outer_except", "")
  /\ UNCHANGED mainFrame
  /\ UNCHANGED extVars

\* PopenOk with a suspension after create_task: the read task runs before
\* the first poll
PopenOk_Yield ==
  /\ pc = "spawn" /\ turn = "main"
  /\ process = "None"
  /\ process' = "running"
  /\ spawned' = spawned + 1
  /\ read_task' = "poll"
  /\ pc' = "initial_check"
  /\ turn' = "reader"
  /\ UNCHANGED << active_connections, cliExists, baudParam, baudrate,
                  terminated, killed, stdout_pipe, written, error_output,
                  stdin_log, line, frames, sockOpen, inbox, sent, received,
                  data, exc, endedBy, teardowns >>
  /\ UNCHANGED extVars

\* lines 602-610, 629: Popen returns a process; create_task(read_stdout())
PopenOk ==
  /\ pc = "spawn" /\ turn = "main"
  /\ process = "None"
  /\ process' = "running"
  /\ spawned' = spawned + 1
  /\ read_task' = "poll"
  /\ pc' = "initial_check"
  /\ UNCHANGED << active_connections, turn, cliExists, baudParam, baudrate,
                  terminated, killed, stdout_pipe, written, error_output,
                  stdin_log, line, frames, sockOpen, inbox, sent, received, data,
                  exc, endedBy, teardowns >>
  /\ UNCHANGED extVars

\* lines 611-615: Popen raises -- one frame, return
PopenFail ==
  /\ pc = "spawn" /\ turn = "main"
  /\ MainSend(SpawnFailMsg("OSError"), "finally", "outer_except", "spawn_failed")
  /\ UNCHANGED << mainFrame, baudrate >>
  /\ UNCHANGED extVars

\* InitialCheckExited that tries again: the handle is dropped and the
\* session goes back to the spawn
InitialCheckExited_Retry ==
  /\ pc = "initial_check" /\ turn = "main"
  /\ process = "exited"
  /\ process' = "None"
  /\ pc' = "spawn"
  /\ UNCHANGED << active_connections, turn, cliExists, baudParam, baudrate,
                  spawned, terminated, killed, stdout_pipe, written,
                  error_output, stdin_log, read_task, line, frames, sockOpen,
                  inbox, sent, received, data, exc, endedBy, teardowns >>
  /\ UNCHANGED extVars

\* InitialCheckExited without its return: the session enters the loop
InitialCheckExited_NoReturn ==
  /\ pc = "initial_check" /\ turn = "main"
  /\ process = "exited"
  /\ MainSend(FailedConnectMsg(Port, error_output), "loop", "outer_except", "init_exit")
  /\ UNCHANGED << mainFrame, baudrate >>
  /\ UNCHANGED extVars

\* lines 632-638: the process is gone at the first poll
InitialCheckExited ==
  /\ pc = "initial_check" /\ turn = "main"
  /\ process = "exited"
  /\ MainSend(FailedConnectMsg(Port, error_output), "finally", "outer_except", "init_exit")
  /\ UNCHANGED << mainFrame, baudrate >>
  /\ UNCHANGED extVars

\* lines 632, 641: the process is alive at the first poll
SendConnected ==
  /\ pc = "initial_check" /\ turn = "main"
  /\ process = "running"
  /\ MainSend(ConnectedMsg(Port, baudrate), "loop", "outer_except", "")
  /\ UNCHANGED << mainFrame, baudrate >>
  /\ UNCHANGED extVars

\* LoopExited without its break: the exit is reported on every iteration
LoopExited_NoBreak ==
  /\ pc = "loop" /\ turn = "main"
  /\ process = "exited"
  /\ MainSend(IF error_output # <<>> THEN PortMonitorErrMsg(error_output) ELSE ClosedMsg,
              "loop", "outer_except", "proc_exit")
  /\ UNCHANGED << mainFrame, baudrate >>
  /\ UNCHANGED extVars

\* lines 645-652: the loop sees the process gone, reports it and breaks
LoopExited ==
  /\ pc = "loop" /\ turn = "main"
  /\ process = "exited"
  /\ MainSend(IF error_output # <<>> THEN PortMonitorErrMsg(error_output) ELSE ClosedMsg,
              "cancel", "outer_except", "proc_exit")
  /\ UNCHANGED << mainFrame, baudrate >>
  /\ UNCHANGED extVars

\* lines 645, 656: the process is alive; await wait_for(receive_text(), 0.1).
\* The read task may get the loop while the coroutine waits.
LoopAwaitReceive ==
  /\ pc = "loop" /\ turn = "main"
  /\ process = "running"
  /\ pc' = "recv"
  /\ turn' \in MainYield
  /\ UNCHANGED << mainFrame, baudrate, frames, exc, endedBy >>
  /\ UNCHANGED extVars

\* line 656: receive_text returns a text frame
ReceiveText ==
  /\ pc = "recv" /\ turn = "main"
  /\ inbox # <<>> /\ Head(inbox).kind = "text"
  /\ data' = Head(inbox).text
  /\ received' = Append(received, Head(inbox).text)
  /\ inbox' = Tail(inbox)
  /\ pc' = "poll_send"
  /\ UNCHANGED << sent, active_connections, turn, cliExists, baudParam, baudrate,
                  procVars, read_task, line, frames, sockOpen, exc, endedBy,
                  teardowns >>
  /\ UNCHANGED extVars

\* lines 656, 673: receive_text raises on a frame that is not text
ReceiveBytes ==
  /\ pc = "recv" /\ turn = "main"
  /\ inbox # <<>> /\ Head(inbox).kind = "bytes"
  /\ inbox' = Tail(inbox)
  /\ exc' = "KeyError"
  /\ pc' = "inner_except"
  /\ UNCHANGED << sent, active_connections, turn, cliExists, baudParam, baudrate,
                  procVars, read_task, line, frames, sockOpen, received,
                  data, endedBy, teardowns >>
  /\ UNCHANGED extVars

\* lines 668-669: asyncio.TimeoutError -- continue
ReceiveTimeout ==
  /\ pc = "recv" /\ turn = "main"
  /\ inbox = <<>> /\ sockOpen
  /\ pc' = "loop"
  /\ UNCHANGED << mainFrame, baudrate, turn, frames, exc, endedBy >>
  /\ UNCHANGED extVars

\* lines 656, 670-672: the client is gone -- WebSocketDisconnect
ReceiveDisconnect ==
  /\ pc = "recv" /\ turn = "main"
  /\ inbox = <<>> /\ ~sockOpen
  /\ exc' = "WebSocketDisconnect"
  /\ pc' = "inner_except"
  /\ UNCHANGED << mainFrame, baudrate, turn, frames, endedBy >>
  /\ UNCHANGED extVars

\* PollBeforeWrite without the second poll: the write is always attempted
PollBeforeWrite_NoPoll ==
  /\ pc = "poll_send" /\ turn = "main"
  /\ pc' = "write"
  /\ UNCHANGED << mainFrame, baudrate, turn, frames, exc, endedBy >>
  /\ UNCHANGED extVars

\* lines 658, 666-667: second poll; a frame for a dead process is answered
PollBeforeWrite ==
  /\ pc = "poll_send" /\ turn = "main"
  /\ IF process = "running"
       THEN /\ pc' = "write"
            /\ UNCHANGED << turn, frames, exc, endedBy >>
       ELSE MainSend(ConnClosedMsg, "loop", "inner_except", "")
  /\ UNCHANGED << mainFrame, baudrate >>
  /\ UNCHANGED extVars

\* StdinText without the newline
StdinText_NoNewline(d) == d

\* the text handed to process.stdin.write at line 660
StdinText(d) == d \o <<"\n">>

\* lines 660-665: write and flush; a pipe whose reader is gone raises
StdinWrite ==
  /\ pc = "write" /\ turn = "main"
  /\ IF process = "running"
       THEN /\ stdin_log' = Append(stdin_log, StdinText(data))
            /\ pc' = "loop"
            /\ UNCHANGED << turn, frames, exc, endedBy >>
       ELSE /\ MainSend(SendErrMsg("BrokenPipeError"), "loop", "inner_except", "")
            /\ UNCHANGED stdin_log
  /\ UNCHANGED << active_connections, cliExists, baudParam, baudrate, process,
                  spawned, terminated, killed, stdout_pipe, written,
                  error_output, read_task, line, sockOpen, inbox, sent, received,
                  data, teardowns >>
  /\ UNCHANGED extVars

\* lines 670-676: the handlers of the loop's try
InnerExcept ==
  /\ pc = "inner_except" /\ turn = "main"
  /\ IF exc = "WebSocketDisconnect"
       THEN /\ pc' = "cancel"
            /\ exc' = ""
            /\ endedBy' = Trigger(endedBy, "disconnect")
            /\ UNCHANGED << turn, frames >>
       ELSE MainSend(ErrMsg(exc), "cancel", "outer_except", "exception")
  /\ UNCHANGED << mainFrame, baudrate >>
  /\ UNCHANGED extVars

\* lines 678-680: after the loop, cancel the read task unless it is done
CancelReadTask ==
  /\ pc = "cancel" /\ turn = "main"
  /\ read_task' = IF ReaderRunnable THEN "cancelled" ELSE read_task
  /\ pc' = "finally"
  /\ UNCHANGED << active_connections, turn, cliExists, baudParam, baudrate,
                  procVars, line, frames, sockOpen, inbox, sent, received, data,
                  exc, endedBy, teardowns >>
  /\ UNCHANGED extVars

\* OuterExcept with the cleanup after the try statement instead of in a
\* finally clause: an exception raised in the handler skips it
OuterExcept_NoFinally ==
  /\ pc = "outer_except" /\ turn = "main"
  /\ IF exc = "WebSocketDisconnect"
       THEN /\ pc' = "finally"
            /\ exc' = ""
            /\ endedBy' = Trigger(endedBy, "disconnect")
            /\ UNCHANGED << turn, frames >>
       ELSE MainSend(ErrMsg(exc), "finally", "done", "exception")
  /\ UNCHANGED << mainFrame, baudrate >>
  /\ UNCHANGED extVars

\* lines 682-686: the handlers of the outer try; the frame sent at 686 may
\* raise again, and then the exception leaves the function through finally
OuterExcept ==
  /\ pc = "outer_except" /\ turn = "main"
  /\ IF exc = "WebSocketDisconnect"
       THEN /\ pc' = "finally"
            /\ exc' = ""
            /\ endedBy' = Trigger(endedBy, "disconnect")
            /\ UNCHANGED << turn, frames >>
       ELSE MainSend(ErrMsg(exc), "finally", "finally", "exception")
  /\ UNCHANGED << mainFrame, baudrate >>
  /\ UNCHANGED extVars

\* lines 689-691: finally -- terminate a process that is still running
FinallyTerminate ==
  /\ pc = "finally" /\ turn = "main"
  /\ IF process = "running"
       THEN terminated' = TRUE /\ pc' = "wait"
       ELSE terminated' = terminated /\ pc' = "release"
  /\ UNCHANGED << active_connections, turn, cliExists, baudParam, baudrate,
                  process, spawned, killed, stdout_pipe, written,
                  error_output, stdin_log, read_task, line, frames, sockOpen,
                  inbox, sent, received, data, exc, endedBy, teardowns >>
  /\ UNCHANGED extVars

\* line 692: process.wait(timeout=2) returns, the process has exited
WaitExited ==
  /\ pc = "wait" /\ turn = "main"
  /\ process = "exited"
  /\ pc' = "release"
  /\ UNCHANGED << mainFrame, baudrate, turn, frames, exc, endedBy >>
  /\ UNCHANGED extVars

\* WaitTimeoutKill that swallows the timeout without the kill
WaitTimeoutKill_NoKill ==
  /\ pc = "wait" /\ turn = "main"
  /\ process = "running"
  /\ pc' = "release"
  /\ UNCHANGED << mainFrame, baudrate, turn, frames, exc, endedBy >>
  /\ UNCHANGED extVars

\* lines 692-698: wait times out (TimeoutExpired) -- process.kill()
WaitTimeoutKill ==
  /\ pc = "wait" /\ turn = "main"
  /\ process = "running"
  /\ killed' = TRUE
  /\ pc' = "release"
  /\ UNCHANGED << active_connections, turn, cliExists, baudParam, baudrate,
                  process, spawned, terminated, stdout_pipe, written,
                  error_output, stdin_log, read_task, line, frames, sockOpen,
                  inbox, sent, received, data, exc, endedBy, teardowns >>
  /\ UNCHANGED extVars

\* list.remove(x): the first occurrence of x is removed
RECURSIVE Remove(_, _)
Remove(s, x) ==
  IF s = <<>> THEN s
  ELSE IF Head(s) = x THEN Tail(s)
  ELSE <<Head(s)>> \o Remove(Tail(s), x)

\* line 700: manager.disconnect(websocket); the handler returns and the
\* loop goes to whatever task is left
Disconnect ==
  /\ pc = "release" /\ turn = "main"
  /\ active_connections' = Remove(active_connections, WS)
  /\ teardowns' = teardowns + 1
  /\ pc' = "done"
  /\ turn' = IF ReaderRunnable THEN "reader" ELSE "main"
  /\ UNCHANGED << cliExists, baudParam, baudrate, procVars, read_task, line,
                  frames, sockOpen, inbox, sent, received, data, exc, endedBy >>
  /\ UNCHANGED extVars

Main ==
  \/ Connect \/ CliNotFound \/ SendConnecting \/ PopenOk \/ PopenFail
  \/ InitialCheckExited \/ SendConnected \/ LoopExited \/ LoopAwaitReceive
  \/ ReceiveText \/ ReceiveBytes \/ ReceiveTimeout \/ ReceiveDisconnect
  \/ PollBeforeWrite \/ StdinWrite \/ InnerExcept \/ CancelReadTask
  \/ OuterExcept \/ FinallyTerminate \/ WaitExited \/ WaitTimeoutKill
  \/ Disconnect

\* ------------------------------------------------------ read_stdout (task)
readerFrame == << active_connections, pc, cliExists, baudParam, baudrate,
                  procVars, sockOpen, inbox, sent, received, data, exc, endedBy,
                  teardowns >>

\* line 619: while process and process.poll() is None
ReaderPoll ==
  /\ read_task = "poll" /\ turn = "reader"
  /\ IF process = "running"
       THEN read_task' = "readline" /\ turn' = turn
       ELSE read_task' = "done" /\ turn' = "main"
  /\ UNCHANGED << readerFrame, line, frames >>
  /\ UNCHANGED extVars

\* lines 621-626: readline() blocks the event loop until the process has
\* written a line or closed its stdout; at end of file it returns ''; bytes
\* it cannot decode make it raise, which is logged and ends the task
ReaderReadline ==
  /\ read_task = "readline" /\ turn = "reader"
  /\ \/ /\ stdout_pipe # <<>> /\ Head(stdout_pipe) # BadLine
        /\ line' = Head(stdout_pipe)
        /\ stdout_pipe' = Tail(stdout_pipe)
        /\ read_task' = "send"
        /\ turn' = turn
     \/ /\ stdout_pipe # <<>> /\ Head(stdout_pipe) = BadLine
        /\ stdout_pipe' = Tail(stdout_pipe)
        /\ read_task' = "failed"
        /\ turn' = "main"
        /\ UNCHANGED line
     \/ /\ stdout_pipe = <<>> /\ process = "exited"
        /\ line' = <<>>
        /\ read_task' = "poll"
        /\ turn' = turn
        /\ UNCHANGED stdout_pipe
  /\ UNCHANGED << active_connections, pc, cliExists, baudParam,
                  baudrate, process, spawned, terminated, killed, written,
                  error_output, stdin_log, frames, sockOpen, inbox, sent, received,
                  data, exc, endedBy, teardowns >>
  /\ UNCHANGED extVars

\* lines 623-626: send line.strip(); an exception ends the task
ReaderSend ==
  /\ read_task = "send" /\ turn = "reader"
  /\ \E r \in SendResults :
       /\ frames' = IF r = "ok" THEN Append(frames, ProcFrame(line)) ELSE frames
       /\ IF r \in {"ok", "drop"}
            THEN read_task' = "poll" /\ turn' \in ReaderYield
            ELSE read_task' = "done" /\ turn' = "main"
  /\ UNCHANGED << readerFrame, line >>
  /\ UNCHANGED extVars

Reader == ReaderPoll \/ ReaderReadline \/ ReaderSend

\* ------------------------------------------------- the monitor subprocess
\* the process writes one line to its stdout
ProcWrite ==
  /\ process = "running"
  /\ pc # "done" \/ ReaderRunnable
  /\ Len(written) < MaxLines
  /\ \E l \in ProcLines :
       /\ stdout_pipe' = Append(stdout_pipe, l)
       /\ written' = Append(written, l)
  /\ UNCHANGED << active_connections, pc, turn, cliExists, baudParam,
                  baudrate, process, spawned, terminated, killed,
                  error_output, stdin_log, read_task, line, frames, sockOpen,
                  inbox, sent, received, data, exc, endedBy, teardowns >>
  /\ UNCHANGED extVars

\* the process exits (on its own, or after terminate/kill), leaving its
\* stderr behind
ProcExit ==
  /\ process = "running"
  /\ process' = "exited"
  /\ error_output' \in ErrOutputs
  /\ UNCHANGED << active_connections, pc, turn, cliExists, baudParam,
                  baudrate, spawned, terminated, killed, stdout_pipe, written,
                  stdin_log, read_task, line, frames, sockOpen, inbox, sent,
                  received, data, exc, endedBy, teardowns >>
  /\ UNCHANGED extVars

\* ------------------------------------------------------------- the client
ClientSend ==
  /\ sockOpen
  /\ pc \notin {"accept", "done"}
  /\ sent < MaxIn
  /\ \E f \in InFrames(sent + 1) : inbox' = Append(inbox, f)
  /\ sent' = sent + 1
  /\ UNCHANGED << active_connections, pc, turn, cliExists, baudParam,
                  baudrate, procVars, read_task, line, frames, sockOpen,
                  received, data, exc, endedBy, teardowns >>
  /\ UNCHANGED extVars

ClientClose ==
  /\ sockOpen
  /\ pc \notin {"accept", "done"}
  /\ sockOpen' = FALSE
  /\ UNCHANGED << active_connections, pc, turn, cliExists, baudParam,
                  baudrate, procVars, read_task, line, frames, inbox, sent,
                  received, data, exc, endedBy, teardowns >>
  /\ UNCHANGED extVars

Env == ProcWrite \/ ProcExit \/ ClientSend \/ ClientClose

Next == Main \/ Reader \/ Env

Spec == Init /\ [][Next]_vars

\* The event loop runs a coroutine that can run; nothing is assumed of the
\* process or of the client.  The baud rate plays no part in progress, the
\* query string is left without one.
InitLive == Init /\ baudParam = NoParam
LiveSpec == InitLive /\ [][Next]_vars /\ WF_vars(Main) /\ WF_vars(Reader)

\* ------------------------------------------------------------------------
\* Several sessions on one server.  Every serial_websocket call has its own
\* websocket, process and read task; the calls share the registry
\* (manager.active_connections) and the event loop.  A coroutine runs only
\* while no other coroutine is inside a blocking call: the readline of a
\* read task keeps the loop until it returns.  The frames
\* of the bridge itself and the inbound path are left out: a session here
\* is its position, its process, its read task and its stdout pipe.  The
\* pipe holds one line: the process writes the next one when the read task
\* has taken it.
\* ------------------------------------------------------------------------
CanRun(s, c) == blocked \subseteq {<<s, c>>}
Set(s, f, v) == [sessions EXCEPT ![s][f] = v]
ReaderActive(s) == sessions[s].read_task \in {"poll", "readline", "send"}

\* line 563, lines 46-48: accept, then append to the registry
SessConnect(s) ==
  /\ sessions[s].pc = "idle" /\ CanRun(s, "main")
  /\ sessions[s].sockOpen
  /\ active_connections' = Append(active_connections, s)
  /\ sessions' = Set(s, "pc", "start")
  /\ UNCHANGED << blocked, oneVars, cli, httpVars >>

\* line 47: the client is gone before the handshake -- accept raises, the
\* append is not reached and the call ends outside the try
SessAcceptFail(s) ==
  /\ sessions[s].pc = "idle" /\ CanRun(s, "main")
  /\ sessions' = [sessions EXCEPT ![s].pc = "rejected", ![s].sockOpen = FALSE]
  /\ UNCHANGED << active_connections, blocked, oneVars, cli, httpVars >>

\* lines 576-580, 611-615: no executable or Popen raises -- return
SessEarlyReturn(s) ==
  /\ sessions[s].pc = "start" /\ CanRun(s, "main")
  /\ sessions' = Set(s, "pc", "finally")
  /\ UNCHANGED << active_connections, blocked, oneVars, cli, httpVars >>

\* lines 602-641: Popen returns a process, create_task(read_stdout()) and
\* the first poll, with no await between them: the process is alive (enter
\* the loop) or already gone (return)
SessSpawn(s) ==
  /\ sessions[s].pc = "start" /\ CanRun(s, "main")
  /\ \E p \in {"running", "exited"} :
       sessions' = [sessions EXCEPT ![s].pc = IF p = "running" THEN "loop" ELSE "finally",
                                    ![s].process = p,
                                    ![s].read_task = "poll"]
  /\ UNCHANGED << active_connections, blocked, oneVars, cli, httpVars >>

\* lines 645-652, 678-680: the loop sees the process gone, breaks and
\* cancels the read task
SessLoopExited(s) ==
  /\ sessions[s].pc = "loop" /\ CanRun(s, "main")
  /\ sessions[s].process = "exited"
  /\ sessions' = [sessions EXCEPT ![s].pc = "finally",
                                  ![s].read_task = IF ReaderActive(s) THEN "ended" ELSE @]
  /\ UNCHANGED << active_connections, blocked, oneVars, cli, httpVars >>

\* lines 656, 672-686: receive_text raises on the closed socket; the frame
\* of the handler at 675 is dropped (break, cancel at 678-680) or raises in
\* turn (no cancel)
SessDisconnected(s) ==
  /\ sessions[s].pc = "loop" /\ CanRun(s, "main")
  /\ ~sessions[s].sockOpen
  /\ \E cancel \in BOOLEAN :
       sessions' = [sessions EXCEPT ![s].pc = "finally",
                                    ![s].read_task = IF cancel /\ ReaderActive(s)
                                                       THEN "ended" ELSE @]
  /\ UNCHANGED << active_connections, blocked, oneVars, cli, httpVars >>

\* SessFinally that takes the newest registration off the list, whichever
\* socket it belongs to
SessFinally_Pop(s) ==
  /\ sessions[s].pc = "finally" /\ CanRun(s, "main")
  /\ \E p \in IF sessions[s].process = "running" THEN {"exited", "running"}
              ELSE {sessions[s].process} :
       IF active_connections # <<>>
         THEN /\ active_connections' = SubSeq(active_connections, 1, Len(active_connections) - 1)
              /\ sessions' = [sessions EXCEPT ![s].pc = "done", ![s].process = p]
         ELSE /\ sessions' = [sessions EXCEPT ![s].pc = "ValueError", ![s].process = p]
              /\ UNCHANGED active_connections
  /\ UNCHANGED << blocked, oneVars, cli, httpVars >>

\* lines 687-700, 50-51: the finally block.  It has no await: no other
\* coroutine runs before it ends.  When the process is alive, terminate()
\* and wait(timeout=2), which returns (the process exited) or times out
\* (kill); then manager.disconnect, where list.remove raises ValueError
\* when the socket is not in the list
SessFinally(s) ==
  /\ sessions[s].pc = "finally" /\ CanRun(s, "main")
  /\ \E p \in IF sessions[s].process = "running" THEN {"exited", "running"}
              ELSE {sessions[s].process} :
       IF \E i \in 1..Len(active_connections) : active_connections[i] = s
         THEN /\ active_connections' = Remove(active_connections, s)
              /\ sessions' = [sessions EXCEPT ![s].pc = "done", ![s].process = p]
         ELSE /\ sessions' = [sessions EXCEPT ![s].pc = "ValueError", ![s].process = p]
              /\ UNCHANGED active_connections
  /\ UNCHANGED << blocked, oneVars, cli, httpVars >>

SessMain(s) ==
  \/ SessConnect(s) \/ SessAcceptFail(s) \/ SessEarlyReturn(s) \/ SessSpawn(s)
  \/ SessLoopExited(s) \/ SessDisconnected(s) \/ SessFinally(s)

\* lines 619-621: while process.poll() is None -- the task enters readline,
\* a blocking call: the loop runs nothing else until it returns
SessReaderPoll(s) ==
  /\ sessions[s].read_task = "poll" /\ CanRun(s, "reader")
  /\ IF sessions[s].process = "running"
       THEN /\ sessions' = Set(s, "read_task", "readline")
            /\ blocked' = {<<s, "reader">>}
       ELSE /\ sessions' = Set(s, "read_task", "ended")
            /\ UNCHANGED blocked
  /\ UNCHANGED << active_connections, oneVars, cli, httpVars >>

\* line 621: readline returns a line, or '' at end of file; it does not
\* return while the process is alive and silent
SessReaderReadline(s) ==
  /\ sessions[s].read_task = "readline" /\ CanRun(s, "reader")
  /\ \/ /\ sessions[s].pipe = "line"
        /\ sessions' = [sessions EXCEPT ![s].pipe = "empty", ![s].read_task = "send"]
        /\ UNCHANGED blocked
     \/ /\ sessions[s].pipe = "empty" /\ sessions[s].process = "exited"
        /\ sessions' = Set(s, "read_task", "poll")
        /\ blocked' = {}
  /\ UNCHANGED << active_connections, oneVars, cli, httpVars >>

\* lines 622-626: the line goes to the websocket of this session; on a
\* closed socket it is dropped or the send raises and the task ends
SessReaderSend(s) ==
  /\ sessions[s].read_task = "send" /\ CanRun(s, "reader")
  /\ \/ /\ sessions[s].sockOpen
        /\ sessions' = Set(s, "read_task", "poll")
     \/ /\ ~sessions[s].sockOpen
        /\ \E t \in {"poll", "ended"} : sessions' = Set(s, "read_task", t)
  /\ blocked' = {}
  /\ UNCHANGED << active_connections, oneVars, cli, httpVars >>

SessReader(s) == SessReaderPoll(s) \/ SessReaderReadline(s) \/ SessReaderSend(s)

\* the process of session s writes a line to its stdout
SessProcWrite(s) ==
  /\ sessions[s].process = "running"
  /\ sessions[s].pipe = "empty"
  /\ sessions[s].pc # "done" \/ ReaderActive(s)
  /\ sessions' = Set(s, "pipe", "line")
  /\ UNCHANGED << active_connections, blocked, oneVars, cli, httpVars >>

\* the process of session s exits
SessProcExit(s) ==
  /\ sessions[s].process = "running"
  /\ sessions[s].pc # "done" \/ ReaderActive(s)
  /\ sessions' = Set(s, "process", "exited")
  /\ UNCHANGED << active_connections, blocked, oneVars, cli, httpVars >>

\* the client of session s closes its socket
SessClientClose(s) ==
  /\ sessions[s].pc \in {"start", "loop"}
  /\ sessions[s].sockOpen
  /\ sessions' = Set(s, "sockOpen", FALSE)
  /\ UNCHANGED << active_connections, blocked, oneVars, cli, httpVars >>

SessEnv(s) == SessProcWrite(s) \/ SessProcExit(s) \/ SessClientClose(s)

\* the one-session variables rest at their initial values
ServerInit == Init /\ cliExists /\ baudParam = NoParam

ServerNext == \E s \in Sockets : SessMain(s) \/ SessReader(s) \/ SessEnv(s)

ServerSpec == ServerInit /\ [][ServerNext]_vars

\* the loop runs its ready coroutines in turn: a coroutine that can run
\* again and again is eventually run, even if a blocking call of another
\* one holds the loop in between; processes and clients owe nothing
ServerLiveSpec ==
  /\ ServerInit /\ [][ServerNext]_vars
  /\ \A s \in Sockets : SF_vars(SessMain(s)) /\ SF_vars(SessReader(s))

\* ------------------------------------------------------------------------
\* run_arduino_cli(command): the whole body is inside try / except Exception.
\* ------------------------------------------------------------------------
\* cli_exe: the name looked for in possible_bin_paths
CliExe(nt) == IF nt THEN "arduino-cli.exe" ELSE "arduino-cli"

\* lines 103-115: the first of possible_bin_paths that holds cli_exe, the
\* first of them all when none does
RECURSIVE FindBin(_, _, _)
FindBin(i, files, nt) ==
  IF i > Len(BinDirs) THEN BinDirs[1]
  ELSE IF <<BinDirs[i], CliExe(nt)>> \in files THEN BinDirs[i]
  ELSE FindBin(i + 1, files, nt)

\* bytes.decode('utf-8', errors='replace'): a byte that is not text becomes
\* the replacement character
Replacement == "<U+FFFD>"
Decode(bytes) == [i \in 1..Len(bytes) |-> IF bytes[i] = BadByte THEN Replacement ELSE bytes[i]]

\* lines 161-167: the record returned by the except clause
ExceptResult(e) ==
  [success |-> FALSE, stdout |-> <<>>, stderr |-> <<e>>, returncode |-> -1]
\* lines 132-137: the record returned when cli_path does not exist
MissingResult(path) ==
  [success |-> FALSE, stdout |-> <<>>,
   stderr |-> <<"Arduino CLI executable not found at ", path[1], "/", path[2]>>,
   returncode |-> -1]
\* lines 151-160: the record built from the completed process
RunResult(o) ==
  [success |-> o.returncode = 0, stdout |-> Decode(o.stdout),
   stderr |-> Decode(o.stderr), returncode |-> o.returncode]

cliFrame == << active_connections, oneVars, sessions, blocked, httpVars >>

\* the call: a command list, the files on the disk, the platform and what
\* subprocess.run will do
CliCall ==
  /\ cli.pc = "idle"
  /\ \E c \in Commands, f \in SUBSET DiskFiles, n \in BOOLEAN, o \in RunOutcomes :
       cli' = [cli EXCEPT !.pc = "resolve", !.command = c, !.files = f,
                          !.nt = n, !.outcome = o]
  /\ UNCHANGED cliFrame

\* lines 92-119: choose bin_path, set PATH and HOME
CliResolve ==
  /\ cli.pc = "resolve"
  /\ cli' = [cli EXCEPT !.pc = "argv0", !.bin_path = FindBin(1, cli.files, cli.nt)]
  /\ UNCHANGED cliFrame

\* CliArgv0 that lets the IndexError of an empty command list leave the
\* function
CliArgv0_Uncaught ==
  /\ cli.pc = "argv0"
  /\ IF cli.command = <<>>
       THEN cli' = [cli EXCEPT !.pc = "raised", !.exc = "list index out of range"]
       ELSE cli' = [cli EXCEPT !.pc = "exists",
                               !.command[1] = IF @ = "arduino-cli" /\ cli.nt
                                                THEN "arduino-cli.exe" ELSE @]
  /\ UNCHANGED cliFrame

\* lines 122-123, 161-167: command[0] -- IndexError on an empty list, which
\* the except clause turns into a record; on Windows 'arduino-cli' becomes
\* 'arduino-cli.exe'
CliArgv0 ==
  /\ cli.pc = "argv0"
  /\ IF cli.command = <<>>
       THEN cli' = [cli EXCEPT !.pc = "returned", !.exc = "list index out of range",
                               !.result = ExceptResult("list index out of range")]
       ELSE cli' = [cli EXCEPT !.pc = "exists",
                               !.command[1] = IF @ = "arduino-cli" /\ cli.nt
                                                THEN "arduino-cli.exe" ELSE @]
  /\ UNCHANGED cliFrame

\* lines 130-137: cli_path = bin_path / command[0] does not exist
CliMissing ==
  /\ cli.pc = "exists"
  /\ <<cli.bin_path, cli.command[1]>> \notin cli.files
  /\ cli' = [cli EXCEPT !.pc = "returned", !.missing = TRUE,
                        !.result = MissingResult(<<cli.bin_path, cli.command[1]>>)]
  /\ UNCHANGED cliFrame

\* lines 140-167: subprocess.run with the full path; the process completes
\* and its output is decoded, or the call raises and the except clause
\* answers
CliRun ==
  /\ cli.pc = "exists"
  /\ <<cli.bin_path, cli.command[1]>> \in cli.files
  /\ \/ /\ cli.outcome.kind = "exit"
        /\ cli' = [cli EXCEPT !.pc = "returned", !.ran = TRUE,
                              !.result = RunResult(cli.outcome)]
     \/ /\ cli.outcome.kind = "raise"
        /\ cli' = [cli EXCEPT !.pc = "returned", !.exc = cli.outcome.error,
                              !.result = ExceptResult(cli.outcome.error)]
  /\ UNCHANGED cliFrame

\* the other variables rest at their initial values
CliInit == Init /\ cliExists /\ baudParam = NoParam

CliNext == CliCall \/ CliResolve \/ CliArgv0 \/ CliMissing \/ CliRun

CliSpec == CliInit /\ [][CliNext]_vars

\* ------------------------------------------------------------------------
\* The workspace file store: get_file, get_file_by_query, save_file and
\* delete_file.  Every handler runs from its first line to its return with
\* no await, so a request is one step.
\* ------------------------------------------------------------------------
\* str.replace(old, ''): every occurrence of `old` is taken out
ReplaceAll(s, old) == SelectSeq(s, LAMBDA piece : piece # old)
StartsWith(s, prefix) == s # <<>> /\ s[1] = prefix

\* lines 374-381: the path of get_file
ResolveGet(path) ==
  IF StartsWith(path, WsPrefix) THEN <<WsDir>> \o ReplaceAll(path, WsPrefix) ELSE path
\* lines 396-404: the path of get_file_by_query
ResolveQuery(path) ==
  IF StartsWith(path, WsPrefix) THEN <<WsDir>> \o ReplaceAll(path, WsPrefix) ELSE path
\* lines 425-434: the path of save_file
ResolveSave(path) ==
  IF StartsWith(path, WsPrefix) THEN <<WsDir>> \o ReplaceAll(path, WsPrefix) ELSE path
\* lines 483-490: the path of delete_file
ResolveDelete(path) ==
  IF StartsWith(path, WsPrefix) THEN <<WsDir>> \o ReplaceAll(path, WsPrefix) ELSE path

\* reading in text mode (open(..., 'r'), Path.read_text): universal
\* newlines -- '\r\n' and a lone '\r' are both read as '\n'
RECURSIVE UniversalNewlines(_)
UniversalNewlines(b) ==
  IF b = <<>> THEN <<>>
  ELSE IF b[1] = "\r"
    THEN IF Len(b) > 1 /\ b[2] = "\n"
           THEN <<"\n">> \o UniversalNewlines(SubSeq(b, 3, Len(b)))
           ELSE <<"\n">> \o UniversalNewlines(Tail(b))
    ELSE <<b[1]>> \o UniversalNewlines(Tail(b))

\* lines 436-438: file_path.suffix.lower() is '.ino' or '.fzz'
IsSketchOrCircuit(real) == real[Len(real)] \in {".ino", ".fzz"}

\* lines 446-463: what is on the disk when save_file returns -- written
\* with newline='' (no translation); an .ino or .fzz file is read back in
\* text mode and, when that differs from the content, written again in
\* binary mode
SavedBytes(real, content) ==
  LET first == content
      saved_content == UniversalNewlines(first)
      retried == content
  IN IF IsSketchOrCircuit(real) /\ saved_content # content THEN retried ELSE first

Answer(op, path, real, ok, content, err) ==
  [op |-> op, path |-> path, real |-> real, success |-> ok,
   content |-> content, error |-> err]

\* lines 382-388, 405-416: the body shared by the two read routes
ReadAnswer(op, path, real) ==
  IF store.disk[real].kind = "file"
    THEN Answer(op, path, real, TRUE, UniversalNewlines(store.disk[real].bytes), "")
    ELSE Answer(op, path, real, FALSE, NoContent, "File not found")

\* lines 370-388: GET /files/{file_path}
GetFile(path) ==
  /\ store' = [store EXCEPT !.resp = ReadAnswer("get_file", path, ResolveGet(path))]
  /\ UNCHANGED << active_connections, oneVars, sessions, blocked, cli, parts, api, sketch >>

\* lines 390-416: GET /files?path=
GetFileByQuery(path) ==
  /\ store' = [store EXCEPT !.resp = ReadAnswer("get_file_by_query", path, ResolveQuery(path))]
  /\ UNCHANGED << active_connections, oneVars, sessions, blocked, cli, parts, api, sketch >>

\* lines 418-477: POST /files -- open(..., 'w') raises on a directory and
\* the except clause answers
SaveFile(path, content) ==
  /\ LET real == ResolveSave(path) IN
       IF store.disk[real].kind = "dir"
         THEN store' = [store EXCEPT
                !.expect[path] = NoContent,
                !.resp = Answer("save_file", path, real, FALSE, NoContent, "IsADirectoryError")]
         ELSE store' = [store EXCEPT
                !.disk[real] = RegularFile(SavedBytes(real, content)),
                !.expect[path] = content,
                !.resp = Answer("save_file", path, real, TRUE, NoContent, "")]
  /\ UNCHANGED << active_connections, oneVars, sessions, blocked, cli, parts, api, sketch >>

\* lines 479-512: DELETE /files
DeleteFile(path) ==
  /\ LET real == ResolveDelete(path) IN
       IF store.disk[real].kind = "file"
         THEN store' = [store EXCEPT
                !.disk[real] = Absent,
                !.expect[path] = NoContent,
                !.resp = Answer("delete_file", path, real, TRUE, NoContent, "")]
         ELSE store' = [store EXCEPT
                !.expect[path] = NoContent,
                !.resp = Answer("delete_file", path, real, FALSE, NoContent, "File not found")]
  /\ UNCHANGED << active_connections, oneVars, sessions, blocked, cli, parts, api, sketch >>

\* the other variables rest at their initial values
FileInit == Init /\ cliExists /\ baudParam = NoParam

FileNext ==
  \E path \in VPaths :
    \/ GetFile(path)
    \/ GetFileByQuery(path)
    \/ \E content \in Contents : SaveFile(path, content)
    \/ DeleteFile(path)

FileSpec == FileInit /\ [][FileNext]_vars

\* ------------------------------------------------------------------------
\* The part catalog: get_components with extract_category, and
\* get_component_svg.  Both scan the same directory with glob("**/*.fzp").
\* ------------------------------------------------------------------------
\* str.lower() on the pieces of the model
Lower(s) ==
  [i \in 1..Len(s) |-> CASE s[i] = "LED" -> "led"
                         [] s[i] = "RGB " -> "rgb "
                         [] OTHER -> s[i]]
\* `keyword in text` for strings in pieces
Contains(text, keyword) ==
  \E i \in 1..Len(text) :
    /\ i + Len(keyword) - 1 <= Len(text)
    /\ SubSeq(text, i, i + Len(keyword) - 1) = keyword

\* lines 723-744: the keyword groups in the order of the elif chain
KeywordGroups ==
  << [category |-> "Resistors", keywords |-> {<<"resistor">>, <<"resistance">>}],
     [category |-> "Capacitors", keywords |-> {<<"capacitor">>, <<"capacitance">>}],
     [category |-> "LEDs", keywords |-> {<<"led">>, <<"light">>}],
     [category |-> "Transistors", keywords |-> {<<"transistor">>, <<"mos", "fet">>, <<"fet">>}],
     [category |-> "ICs", keywords |-> {<<"ic">>, <<"chip">>, <<"log", "ic">>}],
     [category |-> "Microcontrollers",
      keywords |-> {<<"arduino">>, <<"raspberry">>, <<"esp">>, <<"m", "ic", "rocontroller">>}],
     [category |-> "Sensors", keywords |-> {<<"sensor">>, <<"detect">>}],
     [category |-> "Input",
      keywords |-> {<<"button">>, <<"switch">>, <<"pot", "entiometer">>, <<"pot">>}],
     [category |-> "Output",
      keywords |-> {<<"display">>, <<"lcd">>, <<"led">>, <<"o", "led">>}],
     [category |-> "Connectors",
      keywords |-> {<<"connector">>, <<"header">>, <<"pin">>, <<"terminal">>}],
     [category |-> "Power",
      keywords |-> {<<"power">>, <<"battery">>, <<"voltage">>, <<"regulator">>}] >>

\* the first group with a keyword in the text, 0 when there is none
RECURSIVE FirstGroup(_, _)
FirstGroup(text, g) ==
  IF g > Len(KeywordGroups) THEN 0
  ELSE IF \E k \in KeywordGroups[g].keywords : Contains(text, k) THEN g
  ELSE FirstGroup(text, g + 1)

\* lines 746-758: the family property, then 'core', 'contrib', 'user' in
\* the string that was passed, then 'Miscellaneous'
AfterKeywords(filename, family) ==
  IF family # "" THEN family
  ELSE IF Contains(filename, <<"core">>) THEN "Core"
  ELSE IF Contains(filename, <<"contrib">>) THEN "Contrib"
  ELSE IF Contains(filename, <<"user">>) THEN "User"
  ELSE "Miscellaneous"

\* lines 719-760: extract_category(filename, properties_elem)
extract_category(filename, family) ==
  LET g == FirstGroup(Lower(filename), 1) IN
  IF g # 0 THEN KeywordGroups[g].category ELSE AfterKeywords(filename, family)

\* str(fzp_file)
FullPath(f) == <<PartsDir>> \o f.path

\* lines 889-984: the loop of get_components over the files found so far;
\* a file that raises inside the try is skipped and takes no id
RECURSIVE Scan(_, _)
Scan(dir, n) ==
  IF n = 0 THEN <<>>
  ELSE LET components == Scan(dir, n - 1)
           fzp_file == dir[n]
       IN IF fzp_file.parses
            THEN Append(components,
                        [id |-> Len(components) + 1,
                         file |-> fzp_file.path,
                         title |-> fzp_file.title,
                         category |-> extract_category(FullPath(fzp_file), fzp_file.family)])
            ELSE components

\* the text of a label is put into the SVG as it is: the document is
\* well-formed when the text has no markup character
WellFormedText(t) == \A i \in 1..Len(t) : t[i] \notin {"&", "<"}

\* lines 1027-1035: the placeholder for an id that names no component
NotFoundGraphic(id, svg_type) ==
  [op |-> "svg", id |-> id, svg_type |-> svg_type, file |-> <<>>,
   kind |-> "placeholder", width |-> "64", height |-> "64",
   viewBox |-> "0 0 64 64", label |-> <<"C", ToString(id)>>, wellformed |-> TRUE]
\* lines 1056-1067: the placeholder for a component without the asset
\* file, drawn with the component's dimensions and title
NoAssetGraphic(id, svg_type, f) ==
  [op |-> "svg", id |-> id, svg_type |-> svg_type, file |-> f.path,
   kind |-> "placeholder", width |-> "72", height |-> "93.6",
   viewBox |-> "0 0 72 93.6", label |-> f.title,
   wellformed |-> WellFormedText(f.title)]
\* lines 1069-1095: the asset, parsed and given width and height; when
\* the parse fails the text of the file is returned as it is
AssetGraphic(id, svg_type, f, asset) ==
  [op |-> "svg", id |-> id, svg_type |-> svg_type, file |-> f.path,
   kind |-> "asset", width |-> IF asset = "svg" THEN "72" ELSE "",
   height |-> IF asset = "svg" THEN "93.6" ELSE "",
   viewBox |-> "", label |-> <<>>, wellformed |-> asset = "svg"]

\* lines 1007-1024: the file that the count reaches, when it parses
AssetOf(f, svg_type) == IF svg_type = "breadboard" THEN f.breadboard ELSE f.icon
Graphic(dir, id, svg_type) ==
  IF id > Len(dir) \/ ~dir[id].parses THEN NotFoundGraphic(id, svg_type)
  ELSE IF AssetOf(dir[id], svg_type) = "absent" THEN NoAssetGraphic(id, svg_type, dir[id])
  ELSE AssetGraphic(id, svg_type, dir[id], AssetOf(dir[id], svg_type))

partsFrame == << active_connections, oneVars, sessions, blocked, cli, store, api, sketch >>

\* the descriptor files that are in the directory
PartsInstall ==
  /\ parts.pc = "idle"
  /\ \E d \in Directories : parts' = [parts EXCEPT !.pc = "ready", !.dir = d]
  /\ UNCHANGED partsFrame

\* lines 704-988: GET /components
GetComponents ==
  /\ parts.pc = "ready"
  /\ parts' = [parts EXCEPT !.components = Scan(parts.dir, Len(parts.dir)),
                            !.pc = "listed"]
  /\ UNCHANGED partsFrame

\* lines 990-1104: GET /components/{component_id}/svg/{svg_type}
GetComponentSvg ==
  /\ parts.pc = "listed"
  /\ \E id \in 1..(MaxParts + 1), svg_type \in SvgTypes :
       parts' = [parts EXCEPT !.graphic = Graphic(parts.dir, id, svg_type)]
  /\ UNCHANGED partsFrame

\* the other variables rest at their initial values
PartsInit == Init /\ cliExists /\ baudParam = NoParam

PartsNext == PartsInstall \/ GetComponents \/ GetComponentSvg

PartsSpec == PartsInit /\ [][PartsNext]_vars

\* ------------------------------------------------------------------------
\* The toolchain endpoints: the listings (174-293), compile and upload
\* (315-368).  The handlers have no await: a request runs from its first
\* line to its return before the next one starts.
\* ------------------------------------------------------------------------
\* json.loads(result['stdout'])
JsonLoads(stdout) ==
  CASE stdout = <<"{}">> -> "object"
    [] stdout = <<"[]">> -> "array"
    [] OTHER -> "JSONDecodeError"

\* lines 177-186 and the six handlers of the same shape: only
\* json.JSONDecodeError is caught, and .get is called on what was parsed
ListingAnswer(l, result) ==
  IF ~result.success
    THEN [raised |-> "", success |-> FALSE, error |-> result.stderr]
  ELSE IF JsonLoads(result.stdout) = "JSONDecodeError"
    THEN [raised |-> "", success |-> FALSE, error |-> <<l.error>>]
  ELSE IF l.field # <<>> /\ JsonLoads(result.stdout) # "object"
    THEN [raised |-> "AttributeError", success |-> FALSE, error |-> <<>>]
  ELSE [raised |-> "", success |-> TRUE, error |-> <<>>]

apiFrame == << active_connections, oneVars, sessions, blocked, cli, store, parts >>

\* a request to one of the listing endpoints
ListingRequest ==
  /\ \E l \in Listings, result \in ToolResults :
       api' = [endpoint |-> l.endpoint, result |-> result,
               resp |-> ListingAnswer(l, result)]
  /\ UNCHANGED << apiFrame, sketch >>

\* sketch_file.write_text(request.code) with the locale's encoding
WriteText(code, encoding) ==
  IF encoding = "cp1252" /\ \E i \in 1..Len(code) : code[i] = "U+4F60"
    THEN "UnicodeEncodeError" ELSE "ok"

\* lines 319-340 and 346-368: the request as it ends.  uuid4 names a
\* directory that no earlier request used; write_text creates the file
\* before it encodes, and nothing catches what it raises
SketchRequest(op, code, result, temp_dir) ==
  IF WriteText(code, sketch.encoding) # "ok"
    THEN [op |-> op, temp_dir |-> temp_dir, sketch_file |-> <<temp_dir, ".ino">>,
          runs |-> <<>>, removed |-> FALSE,
          raised |-> WriteText(code, sketch.encoding),
          result |-> NoResult, success |-> FALSE, message |-> <<>>]
    ELSE [op |-> op, temp_dir |-> temp_dir, sketch_file |-> <<temp_dir, ".ino">>,
          runs |-> <<temp_dir>>, removed |-> TRUE,
          raised |-> "",
          result |-> result, success |-> result.success,
          message |-> IF result.success THEN result.stdout ELSE result.stderr]

\* the platform the server runs on
Deploy ==
  /\ sketch.encoding = ""
  /\ \E e \in Encodings : sketch' = [sketch EXCEPT !.encoding = e]
  /\ UNCHANGED << apiFrame, api >>

\* POST /compile and POST /upload
CompileOrUpload ==
  /\ sketch.encoding # ""
  /\ Len(sketch.log) < MaxRequests
  /\ \E op \in {"compile", "upload"}, code \in Codes, result \in ToolResults :
       LET r == SketchRequest(op, code, result, Len(sketch.log) + 1) IN
       sketch' = [sketch EXCEPT
                    !.log = Append(@, r),
                    !.left = IF r.removed THEN @ ELSE @ \cup {r.temp_dir}]
  /\ UNCHANGED << apiFrame, api >>

\* the other variables rest at their initial values
ApiInit == Init /\ cliExists /\ baudParam = NoParam

ApiNext == ListingRequest \/ Deploy \/ CompileOrUpload

ApiSpec == ApiInit /\ [][ApiNext]_vars

\* ------------------------------------------------------------ properties
TeardownPCs == {"finally", "wait", "release", "done"}
SteadyPCs == {"loop", "recv", "poll_send", "write", "inner_except"}
FrameTexts == [i \in 1..Len(frames) |-> frames[i].text]
CountFrames(S) == Cardinality({i \in 1..Len(frames) : frames[i].text \in S})
ExitReports == {ClosedMsg, PortMonitorErrMsg(error_output)}
HasFrame(m) == \E i \in 1..Len(frames) : frames[i].text = m

\* C1: the teardown of an accepted and registered session (terminate the
\* process if it is still running, release the registration) has not run
\* while the session body runs, and has run exactly once when the session
\* has ended, whichever trigger ended it.
C1_TeardownOnce ==
  /\ teardowns <= 1
  /\ pc \notin {"accept", "done"} => teardowns = 0 /\ active_connections = <<WS>>
  /\ pc = "done" => /\ teardowns = 1
                    /\ active_connections = <<>>
                    /\ endedBy # ""
                    /\ process = "running" => terminated

\* C1 witness: the session ended with an exception raised while an error
\* frame was sent to a closed socket, and the teardown ran once
C1_Witness ==
  /\ pc = "done" /\ exc # "" /\ endedBy = "exception"
  /\ teardowns = 1 /\ active_connections = <<>>

\* C2: without the executable no process is ever spawned, no read task is
\* created, and the socket sees nothing but the one frame naming the missing
\* executable (no Connecting, no Connected); it has seen that frame when the
\* session ends with the socket open.
C2_NoExecutable ==
  ~cliExists =>
    /\ spawned = 0 /\ process = "None" /\ read_task = "None"
    /\ FrameTexts \in {<<>>, <<NotFoundMsg>>}
    /\ (pc \in TeardownPCs /\ sockOpen) => FrameTexts = <<NotFoundMsg>>

\* C2 witness: a session without executable has ended after its one frame
C2_Witness ==
  /\ ~cliExists /\ pc = "done" /\ spawned = 0
  /\ FrameTexts = <<NotFoundMsg>>

\* C3: the first frame of a session that found the executable is
\* 'Connecting to P at B baud...', sent before the spawn; once the process was found alive at the
\* initial check and the socket is open the second frame is
\* 'Connected to P at B baud'; and every frame of process output comes after
\* that second frame.
C3_ConnectedFirst ==
  /\ (cliExists /\ frames # <<>>) =>
        frames[1] = BridgeFrame(ConnectingMsg(Port, baudrate))
  /\ (spawned > 0 /\ sockOpen) => frames # <<>>
  /\ (pc \in SteadyPCs /\ sockOpen) =>
        /\ Len(frames) >= 2
        /\ frames[2] = BridgeFrame(ConnectedMsg(Port, baudrate))
  /\ \A i \in 1..Len(frames) :
        frames[i].src = "proc" =>
          /\ i > 2
          /\ frames[2] = BridgeFrame(ConnectedMsg(Port, baudrate))

\* C3 witness: process output was delivered, after Connecting and Connected
C3_Witness ==
  /\ Len(frames) >= 3
  /\ frames[1].text = ConnectingMsg(Port, "115200")
  /\ frames[2].text = ConnectedMsg(Port, "115200")
  /\ frames[3].src = "proc"

\* C4: when the process is gone at the initial check the session never
\* enters the loop, never sends Connected, delivers no process output and
\* forwards nothing, has spawned one process only, sends the frame with the
\* process's error output at most once, and exactly once (right after
\* Connecting) when it reaches teardown with the socket open.
C4_InitialExit ==
  endedBy = "init_exit" =>
    /\ pc \in TeardownPCs \cup {"outer_except"}
    /\ spawned = 1 /\ process = "exited"
    /\ ~HasFrame(ConnectedMsg(Port, baudrate))
    /\ \A i \in 1..Len(frames) : frames[i].src = "bridge"
    /\ stdin_log = <<>>
    /\ CountFrames({FailedConnectMsg(Port, error_output)}) <= 1
    /\ (pc \in TeardownPCs /\ sockOpen) =>
          FrameTexts = << ConnectingMsg(Port, baudrate),
                          FailedConnectMsg(Port, error_output) >>
    /\ pc = "done" => teardowns = 1

\* C4 witness: the session ended after reporting the error output "e"
C4_Witness ==
  /\ endedBy = "init_exit" /\ pc = "done"
  /\ Len(frames) = 2
  /\ frames[2].text = FailedConnectMsg(Port, <<"e">>)

\* C5: when a session that reached its loop has ended because the process
\* exited on its own, with the socket still open, the lines delivered to the
\* socket are the lines the process wrote, all of them and in order.
C5_AllLinesInOrder ==
  (pc = "done" /\ read_task \in {"done", "cancelled"} /\ sockOpen
     /\ endedBy = "proc_exit") =>
    [i \in 1..Len(frames) |-> frames[i].raw]
      = << ConnectingMsg(Port, baudrate), ConnectedMsg(Port, baudrate) >>
          \o written \o << frames[Len(frames)].raw >>

\* C6: a frame of process output is the line with its trailing whitespace
\* removed and nothing else changed.
C6_TrailingOnly ==
  \A i \in 1..Len(frames) :
    frames[i].src = "proc" => frames[i].text = rstrip(frames[i].raw)

\* C7: nothing is ever written to the input of a process that has exited,
\* and a frame received after the exit (the second poll sees the process
\* gone) is answered with 'Error: Serial connection is closed' when the
\* socket is open.
C7_ClosedAnswer ==
  [][ /\ process = "exited" => stdin_log' = stdin_log
      /\ (pc = "poll_send" /\ process = "exited" /\ pc' # "poll_send") =>
            /\ stdin_log' = stdin_log
            /\ sockOpen => frames' = Append(frames, BridgeFrame(ConnClosedMsg))
    ]_vars

\* C7 witness: a frame received after the exit has been answered
C7_Witness ==
  /\ process = "exited" /\ received # <<>> /\ stdin_log = <<>>
  /\ HasFrame(ConnClosedMsg)

\* the n first text frames of the client, as the process is to read them
Forwarded(n) == [i \in 1..n |-> InText(i) \o <<"\n">>]

C10_Teardown ==
  /\ [](killed => terminated)
  /\ [][(killed' /\ ~killed) => (pc = "wait" /\ terminated /\ process = "running")]_vars
  /\ []((pc = "done" /\ process = "running") => (terminated /\ killed))
  /\ ((pc \in {"finally", "wait", "release"} /\ turn = "main")
        ~> (pc = "done" /\ active_connections = <<>>))

\* C10 witness: a teardown that had to kill the process has ended
C10_Witness ==
  /\ pc = "done" /\ process = "running" /\ terminated /\ killed
  /\ active_connections = <<>>

\* C11: once the registration has been released the read task reads no more
\* of the process's output and sends no more frames.
C11_ReaderStopped ==
  pc = "done" => read_task \notin {"readline", "send"}

\* C12: while the socket is open, the process alive and the session in its
\* loop, a text frame waiting at the head of the socket is eventually written
\* to the process's input.
C12_InboundProgress ==
  \A n \in 0..MaxIn :
    (/\ pc \in SteadyPCs /\ process = "running" /\ sockOpen
     /\ inbox # <<>> /\ Head(inbox).kind = "text"
     /\ Len(stdin_log) = n)
      ~> (\/ Len(stdin_log) > n
          \/ process # "running" \/ ~sockOpen \/ pc \notin SteadyPCs)

\* C13: when the client has closed the socket of a session in its loop, with
\* the process alive, the session reaches the end of its teardown.
C13_DisconnectObserved ==
  (pc \in SteadyPCs /\ process = "running" /\ ~sockOpen) ~> (pc = "done")

\* C14: a session spawns at most one process; it holds a process exactly
\* when it has spawned one, so that a handle is never dropped or replaced;
\* a failed spawn, an immediate exit and a later exit are not followed by
\* another spawn.
C14_SpawnOnce ==
  /\ spawned <= 1
  /\ spawned = 0 <=> process = "None"
  /\ spawned = 0 <=> read_task = "None"
  /\ endedBy = "spawn_failed" => spawned = 0
  /\ endedBy \in {"init_exit", "proc_exit"} => spawned = 1

\* C14 witness: the session has ended after the exit of its one process
C14_Witness ==
  /\ pc = "done" /\ endedBy = "proc_exit"
  /\ spawned = 1 /\ process = "exited"

\* C15: when a session that spawned a process has finished its teardown the
\* process has exited and been reaped.
C15_Reaped ==
  (pc = "done" /\ spawned > 0) => process = "exited"

\* the sessions that have been accepted and have not completed teardown
Registered == {s \in Sockets : sessions[s].pc \in {"start", "loop", "finally"}}
InRegistry == {active_connections[i] : i \in 1..Len(active_connections)}

\* C16: with several sessions connecting and disconnecting in any order, the
\* registry holds exactly the sockets of the sessions that were accepted and
\* have not completed teardown, each once, and no removal finds its socket
\* absent.
C16_RegistryExact ==
  /\ InRegistry = Registered
  /\ Len(active_connections) = Cardinality(InRegistry)
  /\ \A s \in Sockets : sessions[s].pc # "ValueError"

\* one session has been through its teardown and has left the registry
\* while another one, in its loop, is still registered
C16_Witness ==
  /\ sessions[1].pc = "done" /\ sessions[1].process # "None"
  /\ sessions[2].pc = "loop"
  /\ active_connections = <<2>>

\* int(q) succeeds with a positive value, for the query values of BaudParams
ParsesAsPositiveInt(q) == q \in {"115200"}

\* C17: the baud rate of the session is the client's value when that is a
\* positive integer, and 9600 when it is absent or does not parse.
C17_BaudDefault ==
  baudrate # "" =>
    baudrate = IF baudParam # NoParam /\ ParsesAsPositiveInt(baudParam)
                 THEN baudParam ELSE "9600"

\* C18: when the read task has ended on an exception and the session has
\* ended with the socket open, the socket has received a frame carrying the
\* error and the exception is what ended the session.
C18_ReaderErrorReported ==
  (pc = "done" /\ sockOpen /\ read_task = "failed") =>
    /\ \E i \in 1..Len(frames) :
         /\ frames[i].src = "bridge"
         /\ Len(frames[i].text) = 2 /\ frames[i].text[1] = "Error: "
    /\ endedBy = "exception"

\* C19: sessions are independent -- whatever the other sessions do, a line
\* waiting in the stdout pipe of a session that is in its loop, with its
\* socket open and its process alive, is eventually taken by the session's
\* read task to be sent to its socket.
C19_Independent ==
  \A s \in Sockets :
    (/\ sessions[s].pc = "loop" /\ sessions[s].sockOpen
     /\ sessions[s].process = "running" /\ sessions[s].pipe = "line")
      ~> (\/ sessions[s].read_task = "send"
          \/ sessions[s].pc # "loop" \/ ~sessions[s].sockOpen
          \/ sessions[s].process # "running")

\* C20: run_arduino_cli does not raise; it returns a record of success,
\* stdout, stderr and an integer code; success is reported exactly when a
\* subprocess ran and exited with code 0; when the executable is missing or
\* an exception occurred, the record has no success, an empty stdout, the
\* description in stderr and the code -1.
C20_CliTotal ==
  /\ cli.pc # "raised"
  /\ cli.pc = "returned" =>
       /\ DOMAIN cli.result = {"success", "stdout", "stderr", "returncode"}
       /\ cli.result.success \in BOOLEAN
       /\ cli.result.returncode \in Int
       /\ cli.result.success <=> (cli.ran /\ cli.outcome.returncode = 0)
       /\ cli.ran => cli.result.returncode = cli.outcome.returncode
       /\ (cli.missing \/ cli.exc # "") =>
            /\ ~cli.result.success
            /\ cli.result.stdout = <<>>
            /\ cli.result.stderr # <<>>
            /\ cli.exc # "" => cli.result.stderr = <<cli.exc>>
            /\ cli.result.returncode = -1

\* the call with an empty command list has returned the record of the
\* except clause
C20_Witness ==
  /\ cli.pc = "returned" /\ cli.command = <<>>
  /\ cli.exc = "list index out of range"
  /\ cli.result = ExceptResult("list index out of range")

\* what a read of the virtual path would find on a disk
Visible(disk, path) == disk[ResolveGet(path)]
ReadOps == {"get_file", "get_file_by_query"}

\* C21: a read of a virtual path after a successful write of content C to
\* that path, with no write or delete of the path in between, succeeds and
\* returns exactly C.
C21_RoundTrip ==
  (/\ store.resp.op \in ReadOps /\ StartsWith(store.resp.path, WsPrefix)
   /\ store.expect[store.resp.path] # NoContent) =>
    /\ store.resp.success
    /\ store.resp.content = store.expect[store.resp.path]

\* C22: a delete of a path that holds a regular file answers ok and leaves
\* the path without a file (a read or a second delete finds nothing); a
\* delete of a path that holds no file or a directory answers not-found and
\* changes nothing; and what any other path shows is the same before and
\* after.
C22_DeleteOnlyThat ==
  [][(store'.resp.op = "delete_file" /\ store'.resp # store.resp) =>
       LET path == store'.resp.path IN
       /\ IF Visible(store.disk, path).kind = "file"
            THEN /\ store'.resp.success
                 /\ Visible(store'.disk, path) = Absent
            ELSE /\ ~store'.resp.success
                 /\ store'.resp.error = "File not found"
                 /\ store'.disk = store.disk
       /\ \A other \in VPaths \ {path} :
            Visible(store'.disk, other) = Visible(store.disk, other)]_vars

\* C28: every request resolves a path under the prefix to the workspace
\* directory joined with the path less its leading prefix, the four
\* handlers resolve alike, and two different paths under the prefix never
\* resolve to the same real path.
C28_ResolveInjective ==
  store.resp.op # "" =>
    /\ StartsWith(store.resp.path, WsPrefix) =>
         store.resp.real = <<WsDir>> \o Tail(store.resp.path)
    /\ \A p \in VPaths :
         /\ ResolveGet(p) = ResolveQuery(p)
         /\ ResolveQuery(p) = ResolveSave(p)
         /\ ResolveSave(p) = ResolveDelete(p)
    /\ \A p1, p2 \in VPaths :
         (StartsWith(p1, WsPrefix) /\ StartsWith(p2, WsPrefix) /\ p1 # p2)
           => ResolveSave(p1) # ResolveSave(p2)

\* the three cases of a graphic request that has no usable asset
NoDescriptor(dir, id) == id > Len(dir) \/ ~dir[id].parses
NoAssetFile(dir, id, svg_type) ==
  ~NoDescriptor(dir, id) /\ AssetOf(dir[id], svg_type) = "absent"
ProcessingFails(dir, id, svg_type) ==
  ~NoDescriptor(dir, id) /\ AssetOf(dir[id], svg_type) = "malformed"
\* the size of the placeholder of lines 1029 and 1100
DefaultPlaceholder(g) ==
  /\ g.kind = "placeholder"
  /\ g.wellformed
  /\ g.width = "64" /\ g.height = "64" /\ g.viewBox = "0 0 64 64"

\* C23: a graphic request whose descriptor does not exist, whose asset file
\* is missing or whose processing fails is answered with a well-formed
\* placeholder graphic of the fixed default size.
C23_PlaceholderGraphic ==
  (/\ parts.graphic.op = "svg"
   /\ \/ NoDescriptor(parts.dir, parts.graphic.id)
      \/ NoAssetFile(parts.dir, parts.graphic.id, parts.graphic.svg_type)
      \/ ProcessingFails(parts.dir, parts.graphic.id, parts.graphic.svg_type))
  => DefaultPlaceholder(parts.graphic)

\* the file name of a descriptor, without its directories
RECURSIVE LastSlash(_, _)
LastSlash(path, i) ==
  IF i = 0 THEN 0 ELSE IF path[i] = "/" THEN i ELSE LastSlash(path, i - 1)
FileName(path) == SubSeq(path, LastSlash(path, Len(path)) + 1, Len(path))
\* the category when only the file name takes part in the keyword match
CategoryByFileName(f) ==
  LET g == FirstGroup(Lower(FileName(f.path)), 1) IN
  IF g # 0 THEN KeywordGroups[g].category ELSE AfterKeywords(FullPath(f), f.family)
ListedFile(c) == CHOOSE f \in PartFiles : f.path = c.file

\* C27: the category of a part is the first keyword group, in the fixed
\* order, with a keyword in the lower-cased file name, else the family
\* property, else the directory fallback, else Miscellaneous; every group
\* is the category of some file name, and directory names take no part in
\* the keyword match.
C27_CategoryPrecedence ==
  /\ \A g \in 1..Len(KeywordGroups) :
       \E k \in KeywordGroups[g].keywords :
         extract_category(k \o <<".fzp">>, "") = KeywordGroups[g].category
  /\ \A i \in 1..Len(parts.components) :
       parts.components[i].category = CategoryByFileName(ListedFile(parts.components[i]))

\* C29: the ids of the catalog are 1..n in scan order, and the graphic
\* endpoint resolves id k to the descriptor file that the catalog lists
\* with id k, also when descriptor files fail to parse.
C29_SameIdSameFile ==
  /\ \A i \in 1..Len(parts.components) : parts.components[i].id = i
  /\ \A i, j \in 1..Len(parts.components) :
       i < j => \E a, b \in 1..Len(parts.dir) :
                  /\ a < b
                  /\ parts.dir[a].path = parts.components[i].file
                  /\ parts.dir[b].path = parts.components[j].file
  /\ (/\ parts.graphic.op = "svg"
      /\ parts.graphic.id <= Len(parts.components))
     => parts.graphic.file = parts.components[parts.graphic.id].file

\* the output of a listing's toolchain run has the structure the handler
\* reads: JSON, and a JSON object where a key is read from it
Listing(endpoint) == CHOOSE l \in Listings : l.endpoint = endpoint
ExpectedOutput(l, stdout) ==
  /\ JsonLoads(stdout) # "JSONDecodeError"
  /\ l.field # <<>> => JsonLoads(stdout) = "object"

\* C24: a listing endpoint whose toolchain run succeeded with output that is
\* not the expected structured output answers success=false with its
\* parse-failure message and does not raise; a failed run is answered
\* success=false with the toolchain's stderr; success=true is answered only
\* when the run succeeded and the output parsed.
C24_ListingAnswers ==
  api.endpoint # "" =>
    LET l == Listing(api.endpoint) IN
    /\ api.resp.raised = ""
    /\ (api.result.success /\ ~ExpectedOutput(l, api.result.stdout))
         => (~api.resp.success /\ api.resp.error = <<l.error>>)
    /\ ~api.result.success
         => (~api.resp.success /\ api.resp.error = api.result.stderr)
    /\ api.resp.success
         => (api.result.success /\ ExpectedOutput(l, api.result.stdout))

\* C25: every request to an endpoint is answered with a structured response
\* that reports failure as a value: no handler ends with an exception.
C25_FailuresAreValues ==
  /\ api.resp.raised = ""
  /\ \A i \in 1..Len(sketch.log) : sketch.log[i].raised = ""

\* C30: every compile or upload request has a sketch directory of its own
\* with one sketch file named after it, runs the toolchain once on it, has
\* removed the directory when it ends, and answers with stdout on success
\* and stderr on failure.
C30_SketchDirectory ==
  /\ \A i \in 1..Len(sketch.log) :
       LET r == sketch.log[i] IN
       /\ r.sketch_file = <<r.temp_dir, ".ino">>
       /\ r.runs = <<r.temp_dir>>
       /\ r.temp_dir \notin sketch.left
       /\ r.message = IF r.result.success THEN r.result.stdout ELSE r.result.stderr
  /\ \A i, j \in 1..Len(sketch.log) :
       i # j => sketch.log[i].temp_dir # sketch.log[j].temp_dir

\* the places of the session loop (644-676)
LoopPCs == {"loop", "recv", "poll_send", "write", "inner_except"}

\* C26: a write to the process's input stream that fails drops the frame,
\* sends an error frame to the socket and goes back to the top of the loop;
\* the loop is left only when the process was seen to have exited or the
\* socket is gone.
C26_WriteFailureContinues ==
  [][/\ (pc = "write" /\ pc' # "write" /\ process # "running")
          => /\ stdin_log' = stdin_log
             /\ sockOpen => /\ frames' = Append(frames, BridgeFrame(SendErrMsg("BrokenPipeError")))
                            /\ pc' = "loop"
     /\ (pc \in LoopPCs /\ pc' \notin LoopPCs)
          => \/ pc = "loop" /\ process = "exited"
             \/ ~sockOpen]_vars

====
